---- MODULE Spec2Model ----
(***************************************************************************)
(* Model of the structural equality function `equal` (src/unnamed/part_001)*)
(* and of the publish/subscribe dispatcher (src/pubsub/pubsub.js,          *)
(* src/unnamed/part_000) of the snippets repository.                       *)
(*                                                                         *)
(* JavaScript values are records [k, n, s]: k is the kind of the value,    *)
(* n its numeric payload (or its heap address for an object) and s its     *)
(* string payload.  Objects live in a heap, a sequence of object records,  *)
(* so that two objects of equal shape are still two different references.  *)
(* A call of equal is evaluated on a memory [heap, allow_type_coercion,    *)
(* check_all_properties] and gives back its result, whether it threw, and  *)
(* the memory it left behind.                                              *)
(***************************************************************************)
EXTENDS Integers, Sequences, FiniteSets, TLC

VARIABLES heap, allow_type_coercion, check_all_properties, pc, call, result

varsEqual == <<heap, allow_type_coercion, check_all_properties, pc, call, result>>

\* The publish/subscribe dispatcher (src/pubsub/pubsub.js, src/unnamed/part_000):
\* which of the two is loaded, its subscribers table, the timer queue of the
\* host, what the most recent call or timer task did, the subscriptions
\* withdrawn so far, and the number of subscribe calls made.
VARIABLES variant, subscribers, queue, last, unsubscribed, nsubscribes

varsPubsub == <<variant, subscribers, queue, last, unsubscribed, nsubscribes>>

vars == <<varsEqual, varsPubsub>>

\* The caller adds at most this many extra named properties to collections.
MaxAdded == 1

(***************************************************************************)
(* Values                                                                  *)
(***************************************************************************)
Num(n) == [k |-> "Number", n |-> n, s |-> ""]
NaN == [k |-> "Number", n |-> 0, s |-> "NaN"]
Big(n) == [k |-> "BigInt", n |-> n, s |-> ""]
Str(s) == [k |-> "String", n |-> 0, s |-> s]
Bool(b) == [k |-> "Boolean", n |-> IF b THEN 1 ELSE 0, s |-> ""]
Null == [k |-> "Null", n |-> 0, s |-> ""]
Undefined == [k |-> "Undefined", n |-> 0, s |-> ""]
Sym(i) == [k |-> "Symbol", n |-> i, s |-> ""]
Ref(i) == [k |-> "Object", n |-> i, s |-> ""]

IsRef(v) == v.k = "Object"
IsNaN(v) == v.k = "Number" /\ v.s = "NaN"

\* An object: its constructor name, its indexed elements (array elements,
\* set members or map keys, in insertion order), the map values aligned with
\* the map keys, its own enumerable named properties in insertion order
\* (pkeys, pvals), and the internal text and number slots (an error's
\* message, a pattern's source and flags, a date's time value).
Obj(cons, elems, vals, pkeys, pvals, str, flags, num) ==
    [cons |-> cons, elems |-> elems, vals |-> vals, pkeys |-> pkeys,
     pvals |-> pvals, str |-> str, flags |-> flags, num |-> num]

ArrayObj(elems) == Obj("Array", elems, <<>>, <<>>, <<>>, "", "", 0)
TypedObj(cons, elems) == Obj(cons, elems, <<>>, <<>>, <<>>, "", "", 0)
PlainObj(cons, pkeys, pvals) == Obj(cons, <<>>, <<>>, pkeys, pvals, "", "", 0)
MapObj(keys, vals) == Obj("Map", keys, vals, <<>>, <<>>, "", "", 0)
SetObj(items) == Obj("Set", items, <<>>, <<>>, <<>>, "", "", 0)
DateObj(t) == Obj("Date", <<>>, <<>>, <<>>, <<>>, "", "", t)
RegExpObj(source, flags) == Obj("RegExp", <<>>, <<>>, <<>>, <<>>, source, flags, 0)
ErrorObj(cons, message) == Obj(cons, <<>>, <<>>, <<>>, <<>>, message, "", 0)
FunctionObj == Obj("Function", <<>>, <<>>, <<>>, <<>>, "", "", 0)

(***************************************************************************)
(* The language's own operators: ===, SameValueZero, ==                    *)
(***************************************************************************)
\* a === b: same kind and same payload; NaN is not identical to itself.
StrictEq(a, b) == a = b /\ ~IsNaN(a)

\* The identity Map and Set use for their keys and members: NaN matches NaN.
SameValueZero(a, b) == a = b

\* Number(s) for a string s: the empty string is 0, a digit is its number,
\* every other string of the model is not a number.
StringToNumber(s) ==
    IF s = "" THEN Num(0)
    ELSE IF \E d \in 0..9 : ToString(d) = s
         THEN Num(CHOOSE d \in 0..9 : ToString(d) = s)
         ELSE NaN

RECURSIVE Join(_, _, _)
RECURSIVE ToPrimitive(_, _)

\* String(v) of one array element inside Array.prototype.join.  (A Symbol
\* element would make join throw; no array of the model holds one.)
ElementString(h, v) ==
    CASE v.k \in {"Null", "Undefined"} -> ""
      [] IsNaN(v) -> "NaN"
      [] v.k \in {"Number", "BigInt"} -> ToString(v.n)
      [] v.k = "String" -> v.s
      [] v.k = "Boolean" -> IF v.n = 1 THEN "true" ELSE "false"
      [] IsRef(v) -> ToPrimitive(h, v)

\* elems.join(","), from element i on.
Join(h, elems, i) ==
    IF i > Len(elems) THEN ""
    ELSE IF i = Len(elems) THEN ElementString(h, elems[i])
    ELSE ElementString(h, elems[i]) \o "," \o Join(h, elems, i + 1)

\* The string an object turns into when == compares it with a primitive:
\* the joined elements of an array, name and message of an error, the
\* literal of a pattern; for the other objects a text that is no number and
\* no string of the model (the date string, the function's source, the
\* [object ...] tag).
ToPrimitive(h, v) ==
    LET o == h[v.n] IN
    CASE o.cons \in {"Array", "Int8Array"} -> Join(h, o.elems, 1)
      [] o.cons \in {"Error", "TypeError"} -> o.cons \o ": " \o o.str
      [] o.cons = "RegExp" -> "/" \o o.str \o "/" \o o.flags
      [] o.cons = "Date" -> "Date " \o ToString(o.num)
      [] o.cons = "Function" -> "() => true"
      [] o.cons \in {"Map", "Set"} -> "[object " \o o.cons \o "]"
      [] OTHER -> "[object Object]"

\* The number a primitive is compared as by ==.
NumericValue(v) ==
    CASE v.k = "String" -> StringToNumber(v.s)
      [] v.k \in {"BigInt", "Boolean"} -> Num(v.n)
      [] OTHER -> v

\* a == b for two primitives.
LoosePrim(a, b) ==
    IF a.k = b.k THEN StrictEq(a, b)
    ELSE IF a.k \in {"Null", "Undefined"} \/ b.k \in {"Null", "Undefined"}
         THEN a.k \in {"Null", "Undefined"} /\ b.k \in {"Null", "Undefined"}
    ELSE IF a.k = "Symbol" \/ b.k = "Symbol" THEN FALSE
    ELSE StrictEq(NumericValue(a), NumericValue(b))

\* a == b.
LooseEq(h, a, b) ==
    IF IsRef(a) /\ IsRef(b) THEN a = b
    ELSE IF IsRef(a)
         THEN b.k \notin {"Null", "Undefined"} /\ LoosePrim(Str(ToPrimitive(h, a)), b)
    ELSE IF IsRef(b)
         THEN a.k \notin {"Null", "Undefined"} /\ LoosePrim(a, Str(ToPrimitive(h, b)))
    ELSE LoosePrim(a, b)

(***************************************************************************)
(* get_type, and the outcome of a call                                     *)
(***************************************************************************)
\* a.constructor is read off null or undefined: a TypeError is thrown.
get_type_throws(a) == a.k \in {"Null", "Undefined"}

\* get_type(a) = a.constructor.name, for a value it does not throw on.
get_type(h, a) == IF IsRef(a) THEN h[a.n].cons ELSE a.k

\* The outcome of a call on memory m: the value returned, or a thrown
\* TypeError, and the memory the call leaves.
Ret(v, m) == [v |-> v, threw |-> FALSE, m |-> m]
Throw(m) == [v |-> FALSE, threw |-> TRUE, m |-> m]

(***************************************************************************)
(* Property access                                                         *)
(***************************************************************************)
IsArrayObject(o) == o.cons \in {"Array", "Int8Array"}

\* The index of the first i with seq[i] === item, 0 when there is none
\* (Array.prototype.indexOf, which gives -1).
IndexOf(seq, item) ==
    IF \E i \in 1..Len(seq) : StrictEq(seq[i], item)
    THEN CHOOSE i \in 1..Len(seq) :
            StrictEq(seq[i], item) /\ \A j \in 1..(i - 1) : ~StrictEq(seq[j], item)
    ELSE 0

\* seq.splice(idx, 1): seq without its element idx.
Splice(seq, idx) == SubSeq(seq, 1, idx - 1) \o SubSeq(seq, idx + 1, Len(seq))

\* The position of name in a sequence of property names, 0 when absent.
NamePos(names, name) ==
    IF \E i \in 1..Len(names) : names[i] = name
    THEN CHOOSE i \in 1..Len(names) : names[i] = name
    ELSE 0

\* Object.keys(a): the index keys of an array in ascending order, then the
\* named own enumerable properties in insertion order.  A Boolean, BigInt,
\* Number or Symbol primitive has none.
ObjectKeys(h, a) ==
    IF ~IsRef(a) THEN <<>>
    ELSE LET o == h[a.n] IN
         (IF IsArrayObject(o) THEN [i \in 1..Len(o.elems) |-> ToString(i - 1)] ELSE <<>>)
         \o o.pkeys

\* a[k] for a property name k.
GetProp(h, a, k) ==
    IF ~IsRef(a) THEN Undefined
    ELSE LET o == h[a.n] IN
         IF IsArrayObject(o) /\ \E i \in 1..Len(o.elems) : ToString(i - 1) = k
         THEN o.elems[CHOOSE i \in 1..Len(o.elems) : ToString(i - 1) = k]
         ELSE IF NamePos(o.pkeys, k) # 0 THEN o.pvals[NamePos(o.pkeys, k)]
         ELSE Undefined

\* The order of the property names of the model under the default sort
\* (by UTF-16 code units).
KeyOrder == <<"0", "1", "2", "a", "b", "prop">>
KeyRank(name) == CHOOSE i \in 1..Len(KeyOrder) : KeyOrder[i] = name

RECURSIVE SortNames(_)
\* names.sort().
SortNames(names) ==
    IF names = <<>> THEN <<>>
    ELSE LET i == CHOOSE i \in 1..Len(names) :
                     \A j \in 1..Len(names) : KeyRank(names[i]) <= KeyRank(names[j])
         IN <<names[i]>> \o SortNames(Splice(names, i))

\* Object.keys(a) without the sort of the code.
UnsortedKeys(h, a) == ObjectKeys(h, a)

\* Object.keys(a).sort()
SortedKeys(h, a) == SortNames(ObjectKeys(h, a))

\* map.get(k)
MapGet(h, a, k) ==
    LET o == h[a.n] IN
    IF \E i \in 1..Len(o.elems) : SameValueZero(o.elems[i], k)
    THEN o.vals[CHOOSE i \in 1..Len(o.elems) : SameValueZero(o.elems[i], k)]
    ELSE Undefined

\* set.has(item)
SetHas(h, b, item) == \E i \in 1..Len(h[b.n].elems) : SameValueZero(h[b.n].elems[i], item)

(***************************************************************************)
(* The collection reconciler                                               *)
(***************************************************************************)
\* sorted_identical(a, b) on two sorted lists of property names.
sorted_identical(a, b) ==
    IF Len(a) # Len(b) THEN FALSE
    ELSE \A i \in 1..Len(a) : a[i] = b[i]

\* The live key list of the map b itself, in place of a copy.
spread_keys_alias(m, b) == [ref |-> b.n, m |-> m]

\* [...b.keys()]: a fresh array holding the keys of b, allocated in the heap.
spread_keys(m, b) ==
    [ref |-> Len(m.heap) + 1,
     m |-> [m EXCEPT !.heap = Append(@, ArrayObj(m.heap[b.n].elems))]]

RECURSIVE unsorted_loop(_, _, _, _)
\* The loop of unsorted_identical from item i of a on; b is the address of
\* the array that is consumed.
unsorted_loop(m, a, b, i) ==
    IF i > Len(a) THEN Ret(TRUE, m)
    ELSE LET idx == IndexOf(m.heap[b].elems, a[i]) IN
         IF idx = 0 THEN Ret(FALSE, m)
         ELSE unsorted_loop([m EXCEPT !.heap[b].elems = Splice(@, idx)], a, b, i + 1)

\* unsorted_identical(a, b)
unsorted_identical(m, a, b) == unsorted_loop(m, a, b, 1)

(***************************************************************************)
(* equal and the tests for same typed objects                              *)
(***************************************************************************)
RECURSIVE equal(_, _, _)
RECURSIVE array_loop(_, _, _, _)
RECURSIVE object_loop(_, _, _, _, _)
RECURSIVE map_loop(_, _, _, _, _)

\* The guard without the allow_type_coercion disjunct.
coercion_guard_no_flag(m, a_cons, b_cons) ==
    a_cons = b_cons \/ (a_cons # "String" /\ b_cons # "String")

\* The guard without the disjunct for two non-String types.
coercion_guard_flag_only(m, a_cons, b_cons) ==
    m.allow_type_coercion \/ a_cons = b_cons

\* The condition under which a == b makes equal return true.
coercion_guard(m, a_cons, b_cons) ==
    \/ m.allow_type_coercion
    \/ a_cons = b_cons
    \/ (a_cons # "String" /\ b_cons # "String")

\* equal_test.Number
equal_test_Number(m, a, b) == Ret(IsNaN(a) /\ IsNaN(b), m)

\* equal_test.String
equal_test_String(m, a, b) == Ret(FALSE, m)

\* equal_test.Date: a - b == 0
equal_test_Date(m, a, b) == Ret(m.heap[a.n].num - m.heap[b.n].num = 0, m)

\* equal_test.RegExp
equal_test_RegExp(m, a, b) ==
    Ret(m.heap[a.n].str = m.heap[b.n].str /\ m.heap[a.n].flags = m.heap[b.n].flags, m)

\* equal_test.Symbol and equal_test.Function
equal_test_identity(m, a, b) == Ret(StrictEq(a, b), m)

\* equal_test.Error
equal_test_Error(m, a, b) == Ret(m.heap[a.n].str = m.heap[b.n].str, m)

\* The loop of equal_test.Object over the sorted keys of a, from key i on.
object_loop(m, a, b, a_keys, i) ==
    IF i > Len(a_keys) THEN Ret(TRUE, m)
    ELSE LET r == equal(m, GetProp(m.heap, a, a_keys[i]), GetProp(m.heap, b, a_keys[i])) IN
         IF r.threw THEN r
         ELSE IF ~r.v THEN Ret(FALSE, r.m)
         ELSE object_loop(r.m, a, b, a_keys, i + 1)

\* equal_test.Object
equal_test_Object(m, a, b) ==
    LET a_keys == SortedKeys(m.heap, a)
        b_keys == SortedKeys(m.heap, b)
    IN IF ~sorted_identical(a_keys, b_keys) THEN Ret(FALSE, m)
       ELSE object_loop(m, a, b, a_keys, 1)

\* The loop of equal_test.Array over the indices, from element i on.
array_loop(m, a, b, i) ==
    IF i > Len(m.heap[a.n].elems) THEN Ret(TRUE, m)
    ELSE LET bi == IF i <= Len(m.heap[b.n].elems) THEN m.heap[b.n].elems[i] ELSE Undefined
             r == equal(m, m.heap[a.n].elems[i], bi)
         IN IF r.threw THEN r
            ELSE IF ~r.v THEN Ret(FALSE, r.m)
            ELSE array_loop(r.m, a, b, i + 1)

\* equal_test.Array without the check_all_properties branch.
equal_test_Array_elements_only(m, a, b) ==
    IF Len(m.heap[a.n].elems) # Len(m.heap[b.n].elems) THEN Ret(FALSE, m)
    ELSE array_loop(m, a, b, 1)

\* equal_test.Array
equal_test_Array(m, a, b) ==
    IF Len(m.heap[a.n].elems) # Len(m.heap[b.n].elems) THEN Ret(FALSE, m)
    ELSE IF m.check_all_properties THEN equal_test_Object(m, a, b)
    ELSE array_loop(m, a, b, 1)

\* The loop of equal_test.Map over the keys of a, from key i on.
map_loop(m, a, b, a_keys, i) ==
    IF i > Len(a_keys) THEN Ret(TRUE, m)
    ELSE LET r == equal(m, MapGet(m.heap, a, a_keys[i]), MapGet(m.heap, b, a_keys[i])) IN
         IF r.threw THEN r
         ELSE IF ~r.v THEN Ret(FALSE, r.m)
         ELSE map_loop(r.m, a, b, a_keys, i + 1)

\* equal_test.Map from the check of the extra properties on.
map_after_size(m, a, b) ==
    LET o == IF m.check_all_properties THEN equal_test_Object(m, a, b) ELSE Ret(TRUE, m) IN
    IF o.threw THEN o
    ELSE IF ~o.v THEN Ret(FALSE, o.m)
    ELSE LET a_keys == o.m.heap[a.n].elems
             sp == spread_keys(o.m, b)
             u == unsorted_identical(sp.m, a_keys, sp.ref)
         IN IF ~u.v THEN Ret(FALSE, u.m)
            ELSE map_loop(u.m, a, b, a_keys, 1)

\* equal_test.Map without the comparison of the sizes.
equal_test_Map_no_size(m, a, b) == map_after_size(m, a, b)

\* equal_test.Map
equal_test_Map(m, a, b) ==
    IF Len(m.heap[a.n].elems) # Len(m.heap[b.n].elems) THEN Ret(FALSE, m)
    ELSE map_after_size(m, a, b)

\* equal_test.Set
equal_test_Set(m, a, b) ==
    IF Len(m.heap[a.n].elems) # Len(m.heap[b.n].elems) THEN Ret(FALSE, m)
    ELSE LET o == IF m.check_all_properties THEN equal_test_Object(m, a, b) ELSE Ret(TRUE, m) IN
         IF o.threw THEN o
         ELSE IF ~o.v THEN Ret(FALSE, o.m)
         ELSE Ret(\A i \in 1..Len(o.m.heap[a.n].elems) :
                      SetHas(o.m.heap, b, o.m.heap[a.n].elems[i]), o.m)

\* The names in the list of the typed-array registration loop.
TypedArrayNames ==
    <<"Int8Array", "Uint8Array", "Uint8ClampedArray", "Int16Array", "Uint16Array",
      "Int32Array", "Uint32Array", "Float32Array", "Float64Array">>

\* What `for (let t in list)` binds t to: the index keys of the list.
ForInKeys(list) == {ToString(i - 1) : i \in 1..Len(list)}

\* The keys of equal_test as the object literal defines them.
EqualTestLiteralKeys ==
    {"Number", "String", "Date", "RegExp", "Array", "Object", "Map", "Set",
     "Symbol", "Function", "Error"}

\* equal_test after the registration loop: each key with the key of the
\* literal whose predicate it holds.
equal_test ==
    [t \in EqualTestLiteralKeys \cup ForInKeys(TypedArrayNames) |->
        IF t \in EqualTestLiteralKeys THEN t ELSE "Array"]

\* equal_test[t](a, b) for a key t of the literal.
apply_test(t, m, a, b) ==
    CASE t = "Number" -> equal_test_Number(m, a, b)
      [] t = "String" -> equal_test_String(m, a, b)
      [] t = "Date" -> equal_test_Date(m, a, b)
      [] t = "RegExp" -> equal_test_RegExp(m, a, b)
      [] t = "Array" -> equal_test_Array(m, a, b)
      [] t = "Map" -> equal_test_Map(m, a, b)
      [] t = "Set" -> equal_test_Set(m, a, b)
      [] t \in {"Symbol", "Function"} -> equal_test_identity(m, a, b)
      [] t = "Error" -> equal_test_Error(m, a, b)
      [] OTHER -> equal_test_Object(m, a, b)

\* equal(a, b)
equal(m, a, b) ==
    IF StrictEq(a, b) THEN Ret(TRUE, m)
    ELSE IF get_type_throws(a) \/ get_type_throws(b) THEN Throw(m)
    ELSE LET a_cons == get_type(m.heap, a)
             b_cons == get_type(m.heap, b)
         IN IF LooseEq(m.heap, a, b) /\ coercion_guard(m, a_cons, b_cons) THEN Ret(TRUE, m)
            ELSE IF a_cons # b_cons THEN Ret(FALSE, m)
            ELSE IF a_cons \in DOMAIN equal_test THEN apply_test(equal_test[a_cons], m, a, b)
            ELSE equal_test_Object(m, a, b)

(***************************************************************************)
(* The values of the model: the pairs of the test table of the source and  *)
(* the cases the properties of the specification name                      *)
(***************************************************************************)
InitHeap ==
    << PlainObj("Object", <<>>, <<>>),                                \* 1  {}
       PlainObj("Object", <<>>, <<>>),                                \* 2  {}
       ArrayObj(<<Num(1), Num(2)>>),                                  \* 3  [1, 2]
       ArrayObj(<<Num(1), Num(2)>>),                                  \* 4  [1, 2]
       ArrayObj(<<Num(2), Num(1)>>),                                  \* 5  [2, 1]
       ArrayObj(<<Num(1)>>),                                          \* 6  [1]
       ArrayObj(<<Null, Num(2)>>),                                    \* 7  [null, 2]
       PlainObj("Object", <<"a", "b">>, <<Num(1), Num(2)>>),          \* 8  {a: 1, b: 2}
       PlainObj("Object", <<"b", "a">>, <<Num(2), Num(1)>>),          \* 9  {b: 2, a: 1}
       PlainObj("Object", <<"a">>, <<Num(1)>>),                       \* 10 {a: 1}
       PlainObj("Object", <<"a", "b">>, <<Str("1"), Num(2)>>),        \* 11 {a: '1', b: 2}
       PlainObj("X", <<>>, <<>>),                                     \* 12 new X()
       MapObj(<<Str("a"), Str("b")>>, <<Num(1), Num(2)>>),            \* 13 Map a->1, b->2
       MapObj(<<Str("b"), Str("a")>>, <<Num(2), Num(1)>>),            \* 14 Map b->2, a->1
       MapObj(<<Str("a")>>, <<Num(1)>>),                              \* 15 Map a->1
       MapObj(<<Ref(1)>>, <<Num(1)>>),                                \* 16 Map {}->1
       MapObj(<<Ref(2)>>, <<Num(1)>>),                                \* 17 Map {}->1
       MapObj(<<NaN>>, <<Num(1)>>),                                   \* 18 Map NaN->1
       MapObj(<<NaN>>, <<Num(1)>>),                                   \* 19 Map NaN->1
       MapObj(<<Str("a"), Str("b")>>, <<Null, Num(1)>>),              \* 20 Map a->null, b->1
       MapObj(<<Str("b"), Str("a")>>, <<Num(2), Num(2)>>),            \* 21 Map b->2, a->2
       SetObj(<<Str("a"), Num(1)>>),                                  \* 22 Set 'a', 1
       SetObj(<<Num(1), Str("a")>>),                                  \* 23 Set 1, 'a'
       SetObj(<<Str("a"), Num(2)>>),                                  \* 24 Set 'a', 2
       DateObj(5),                                                    \* 25
       DateObj(5),                                                    \* 26
       DateObj(6),                                                    \* 27
       RegExpObj("a", "g"),                                           \* 28 /a/g
       RegExpObj("a", "g"),                                           \* 29 /a/g
       RegExpObj("a", "i"),                                           \* 30 /a/i
       ErrorObj("Error", "x"),                                        \* 31 Error('x')
       ErrorObj("Error", "x"),                                        \* 32 Error('x')
       ErrorObj("Error", "y"),                                        \* 33 Error('y')
       ErrorObj("TypeError", "x"),                                    \* 34 TypeError('x')
       ErrorObj("TypeError", "x"),                                    \* 35 TypeError('x')
       ErrorObj("TypeError", "y"),                                    \* 36 TypeError('y')
       TypedObj("Int8Array", <<Num(1), Num(2)>>),                     \* 37 Int8Array [1, 2]
       TypedObj("Int8Array", <<Num(1), Num(2)>>),                     \* 38 Int8Array [1, 2]
       TypedObj("Int8Array", <<Num(2), Num(1)>>),                     \* 39 Int8Array [2, 1]
       FunctionObj,                                                   \* 40 () => true
       FunctionObj,                                                   \* 41 () => true
       PlainObj("X", <<>>, <<>>),                                     \* 42 new X()
       PlainObj("X", <<"prop">>, <<Num(1)>>),                         \* 43 new X() with prop = 1
       Obj("Int8Array", <<Num(1), Num(2)>>, <<>>, <<"prop">>, <<Num(1)>>, "", "", 0),
                                                                      \* 44 Int8Array [1, 2] with prop = 1
       MapObj(<<Str("a")>>, <<Ref(3)>>),                              \* 45 Map a->[1, 2]
       MapObj(<<Str("a")>>, <<Ref(4)>>),                              \* 46 Map a->[1, 2]
       MapObj(<<Str("a")>>, <<Ref(5)>>),                              \* 47 Map a->[2, 1]
       PlainObj("Object", <<"a">>, <<Ref(3)>>),                       \* 48 {a: [1, 2]}
       PlainObj("Object", <<"a">>, <<Ref(4)>>) >>                     \* 49 {a: [1, 2]}

Primitives ==
    {Num(1), Num(2), NaN, Big(1), Str("1"), Str("a"), Bool(TRUE), Bool(FALSE),
     Null, Undefined, Sym(1)}

\* The values equal is called on.
Values == Primitives \cup {Ref(i) : i \in 1..Len(InitHeap)}

\* The collections the caller attaches an extra named property to:
\* an array, a map and a set.
PropTargets == {3, 13, 22}

\* The number of extra named properties attached so far.
Added(h) == Cardinality({r \in PropTargets : h[r].pkeys # <<>>})

NoCall == [a |-> Undefined, b |-> Undefined]
NoResult == [v |-> FALSE, threw |-> FALSE]

\* The memory a call of equal runs on.
Mem ==
    [heap |-> heap, allow_type_coercion |-> allow_type_coercion,
     check_all_properties |-> check_all_properties]

(***************************************************************************)
(* The state machine: a caller that sets the flags, attaches properties    *)
(* and calls equal                                                         *)
(***************************************************************************)
\* A page that only uses equal: no dispatcher is loaded.
NoDispatcher ==
    /\ variant = "none"
    /\ subscribers = <<>>
    /\ queue = <<>>
    /\ last = <<>>
    /\ unsubscribed = {}
    /\ nsubscribes = 0

InitEqual ==
    /\ NoDispatcher
    /\ heap = InitHeap
    /\ allow_type_coercion = TRUE
    /\ check_all_properties = FALSE
    /\ pc = "idle"
    /\ call = NoCall
    /\ result = NoResult

\* equal.allow_type_coercion = v
SetAllowTypeCoercion(v) ==
    /\ pc = "idle"
    /\ allow_type_coercion' = v
    /\ UNCHANGED <<heap, check_all_properties, pc, call, result>>
    /\ UNCHANGED varsPubsub

\* equal.check_all_properties = v
SetCheckAllProperties(v) ==
    /\ pc = "idle"
    /\ check_all_properties' = v
    /\ UNCHANGED <<heap, allow_type_coercion, pc, call, result>>
    /\ UNCHANGED varsPubsub

\* r.prop = 1 on a collection r that has no named property yet
AddProperty(r) ==
    /\ pc = "idle"
    /\ Added(heap) < MaxAdded
    /\ heap[r].pkeys = <<>>
    /\ heap' = [heap EXCEPT ![r].pkeys = <<"prop">>, ![r].pvals = <<Num(1)>>]
    /\ UNCHANGED <<allow_type_coercion, check_all_properties, pc, call, result>>
    /\ UNCHANGED varsPubsub

\* equal(a, b) is called and runs to its end; the arrays it allocated are
\* garbage when it returns.
CallEqual(a, b) ==
    /\ pc = "idle"
    /\ LET r == equal(Mem, a, b) IN
       /\ heap' = SubSeq(r.m.heap, 1, Len(heap))
       /\ allow_type_coercion' = r.m.allow_type_coercion
       /\ check_all_properties' = r.m.check_all_properties
       /\ result' = [v |-> r.v, threw |-> r.threw]
    /\ call' = [a |-> a, b |-> b]
    /\ pc' = "returned"
    /\ UNCHANGED varsPubsub

\* The caller has used the result and goes on.
Return ==
    /\ pc = "returned"
    /\ pc' = "idle"
    /\ call' = NoCall
    /\ result' = NoResult
    /\ UNCHANGED <<heap, allow_type_coercion, check_all_properties>>
    /\ UNCHANGED varsPubsub

NextEqual ==
    \/ \E v \in BOOLEAN : SetAllowTypeCoercion(v)
    \/ \E v \in BOOLEAN : SetCheckAllProperties(v)
    \/ \E r \in PropTargets : AddProperty(r)
    \/ \E a \in Values, b \in Values : CallEqual(a, b)
    \/ Return

SpecEqual == InitEqual /\ [][NextEqual]_vars

(***************************************************************************)
(* Vocabulary of the properties                                            *)
(***************************************************************************)
\* equal(call.a, call.b) has returned (or thrown) and the caller holds the result.
Called == pc = "returned"
ReturnedTrue == Called /\ ~result.threw /\ result.v
ReturnedFalse == Called /\ ~result.threw /\ ~result.v

\* equal(x, y) in the current memory returns true.
EqualHolds(x, y) == LET r == equal(Mem, x, y) IN ~r.threw /\ r.v

ConsOf(v) == heap[v.n].cons
DistinctObjects(a, b) == IsRef(a) /\ IsRef(b) /\ a # b
HasExtraProps(v) == heap[v.n].pkeys # <<>>
NameSet(v) == {heap[v.n].pkeys[i] : i \in 1..Len(heap[v.n].pkeys)}
ElemSet(v) == {heap[v.n].elems[i] : i \in 1..Len(heap[v.n].elems)}

\* A Number and a String that are loosely equal, such as 1 and '1'.
NumStrPair(a, b) ==
    /\ {a.k, b.k} = {"Number", "String"}
    /\ LooseEq(heap, a, b)

\* A Number and a BigInt that are loosely equal, such as 1 and 1n.
NumBigPair(a, b) ==
    /\ {a.k, b.k} = {"Number", "BigInt"}
    /\ LooseEq(heap, a, b)

\* Two plain objects with the same property names that differ only in
\* loosely equal Number/String pairs, and in at least one.
DifferOnlyInNumStrPairs(a, b) ==
    /\ DistinctObjects(a, b)
    /\ ConsOf(a) = "Object" /\ ConsOf(b) = "Object"
    /\ NameSet(a) = NameSet(b)
    /\ \A k \in NameSet(a) :
          \/ StrictEq(GetProp(heap, a, k), GetProp(heap, b, k))
          \/ NumStrPair(GetProp(heap, a, k), GetProp(heap, b, k))
    /\ \E k \in NameSet(a) : NumStrPair(GetProp(heap, a, k), GetProp(heap, b, k))

(***************************************************************************)
(* C1                                                                      *)
(***************************************************************************)
\* C1, as stated: for a Number and a String that are loosely equal, equal
\* returns false in both orders and under both settings of
\* allow_type_coercion, also when the pair is the values of a shared key of
\* two compared objects.
C1_StringNeverCoerced ==
    Called =>
        /\ NumStrPair(call.a, call.b) => ReturnedFalse
        /\ DifferOnlyInNumStrPairs(call.a, call.b) => ReturnedFalse

\* C1, amended: for a Number and a String that are loosely equal, equal
\* returns true when allow_type_coercion is true and false when it is false,
\* in both orders; two objects that differ only in such pairs at shared keys
\* compare the same way.
C1_StringCoercedByFlag ==
    Called =>
        /\ NumStrPair(call.a, call.b) =>
              ~result.threw /\ result.v = allow_type_coercion
        /\ DifferOnlyInNumStrPairs(call.a, call.b) =>
              ~result.threw /\ result.v = allow_type_coercion

\* C1 witness: with coercion allowed, a loosely equal Number and String were
\* compared and found equal.
C1_Witness ==
    /\ Called
    /\ NumStrPair(call.a, call.b)
    /\ allow_type_coercion
    /\ ReturnedTrue

(***************************************************************************)
(* C2                                                                      *)
(***************************************************************************)
\* C2, as stated: for a Number and a BigInt that are loosely equal, equal
\* returns true when allow_type_coercion is true and false when it is false.
C2_NumericCoercionToggle ==
    Called /\ NumBigPair(call.a, call.b) =>
        ~result.threw /\ result.v = allow_type_coercion

\* C2, amended: for a Number and a BigInt that are loosely equal, equal
\* returns true under both settings of allow_type_coercion.
C2_NumericCoercionAlways ==
    Called /\ NumBigPair(call.a, call.b) => ReturnedTrue

\* C2 witness: with coercion not allowed, 1 and 1n were compared and found equal.
C2_Witness ==
    /\ Called
    /\ NumBigPair(call.a, call.b)
    /\ ~allow_type_coercion
    /\ ReturnedTrue

(***************************************************************************)
(* C3                                                                      *)
(***************************************************************************)
\* C3: equal returns a boolean and raises no error for every pair of
\* acyclic values, null and undefined included, at top level or nested.
C3_NeverRaises == Called => ~result.threw

(***************************************************************************)
(* C4                                                                      *)
(***************************************************************************)
ErrorLike(v) == IsRef(v) /\ ConsOf(v) \in {"Error", "TypeError"}

\* C4: two distinct Error-like values of the same constructor, Error or a
\* subtype of it, are equal if and only if their messages are equal.
C4_ErrorsByMessage ==
    ( /\ Called
      /\ DistinctObjects(call.a, call.b)
      /\ ErrorLike(call.a) /\ ErrorLike(call.b)
      /\ ConsOf(call.a) = ConsOf(call.b) )
    => /\ ~result.threw
       /\ result.v <=> (heap[call.a.n].str = heap[call.b.n].str)

(***************************************************************************)
(* C5                                                                      *)
(***************************************************************************)
\* The Array-like rule without check_all_properties: the lengths match and
\* the elements are pairwise equal.
ElementsPairwiseEqual(a, b) ==
    /\ Len(heap[a.n].elems) = Len(heap[b.n].elems)
    /\ \A i \in 1..Len(heap[a.n].elems) : EqualHolds(heap[a.n].elems[i], heap[b.n].elems[i])

TypedArray(v) ==
    IsRef(v) /\ \E i \in 1..Len(TypedArrayNames) : ConsOf(v) = TypedArrayNames[i]

\* C5: two fixed-width numeric buffers of the same category are compared by
\* the Array-like rule: with check_all_properties false they are equal if and
\* only if the lengths match and the elements are pairwise equal, whatever
\* extra named properties they carry.
C5_TypedArraysUseArrayRule ==
    ( /\ Called
      /\ DistinctObjects(call.a, call.b)
      /\ TypedArray(call.a) /\ TypedArray(call.b)
      /\ ConsOf(call.a) = ConsOf(call.b)
      /\ ~check_all_properties )
    => /\ ~result.threw
       /\ result.v <=> ElementsPairwiseEqual(call.a, call.b)

(***************************************************************************)
(* C6                                                                      *)
(***************************************************************************)
\* C6: equal(a, b) and equal(b, a) give the same result, for all values and
\* under every setting of the two flags.
C6_Symmetric ==
    Called =>
        LET r == equal(Mem, call.b, call.a) IN
        /\ result.threw = r.threw
        /\ result.v = r.v

(***************************************************************************)
(* C7                                                                      *)
(***************************************************************************)
IsMap(v) == IsRef(v) /\ ConsOf(v) = "Map"

\* The two maps hold literally the same keys: every key of each is
\* identical (===) to a key of the other, whatever the insertion order.
KeysIdentical(a, b) ==
    /\ \A x \in ElemSet(a) : \E y \in ElemSet(b) : StrictEq(x, y)
    /\ \A y \in ElemSet(b) : \E x \in ElemSet(a) : StrictEq(x, y)

\* C7: with check_all_properties false, two distinct maps are equal if and
\* only if they have the same size, literally the same keys (by identity,
\* not by deep equality, in any insertion order) and recursively equal
\* values at every key; maps of the same size whose keys are not identical
\* are unequal.
C7_MapsByIdenticalKeys ==
    ( /\ Called
      /\ DistinctObjects(call.a, call.b)
      /\ IsMap(call.a) /\ IsMap(call.b)
      /\ ~check_all_properties )
    => /\ ReturnedTrue <=>
            /\ Len(heap[call.a.n].elems) = Len(heap[call.b.n].elems)
            /\ KeysIdentical(call.a, call.b)
            /\ \A k \in ElemSet(call.a) :
                  EqualHolds(MapGet(heap, call.a, k), MapGet(heap, call.b, k))
       /\ ~KeysIdentical(call.a, call.b) => ReturnedFalse

\* C7 witness: two maps of the same size, keyed by distinct objects of the
\* same shape and with equal values, were compared and found unequal.
C7_Witness ==
    /\ Called
    /\ DistinctObjects(call.a, call.b)
    /\ IsMap(call.a) /\ IsMap(call.b)
    /\ ~check_all_properties
    /\ Len(heap[call.a.n].elems) = Len(heap[call.b.n].elems)
    /\ heap[call.a.n].vals = heap[call.b.n].vals
    /\ \E x \in ElemSet(call.a), y \in ElemSet(call.b) :
          DistinctObjects(x, y) /\ heap[x.n] = heap[y.n]
    /\ ReturnedFalse

(***************************************************************************)
(* C8                                                                      *)
(***************************************************************************)
ObjectCategory(v) == IsRef(v) /\ ConsOf(v) \in {"Object", "X"}
IsArray(v) == IsRef(v) /\ ConsOf(v) = "Array"

\* C8: two distinct values of the Object category with the same constructor
\* are equal if and only if their sets of own enumerable property names are
\* the same and the values at every name are recursively equal, whatever the
\* insertion order; two arrays of equal length with an unequal pair of
\* elements at some index are unequal.
C8_ObjectsByKeySet ==
    /\ ( /\ Called
         /\ DistinctObjects(call.a, call.b)
         /\ ObjectCategory(call.a) /\ ObjectCategory(call.b)
         /\ ConsOf(call.a) = ConsOf(call.b) )
       => ( ReturnedTrue <=>
               /\ NameSet(call.a) = NameSet(call.b)
               /\ \A k \in NameSet(call.a) :
                     EqualHolds(GetProp(heap, call.a, k), GetProp(heap, call.b, k)) )
    /\ ( /\ Called
         /\ DistinctObjects(call.a, call.b)
         /\ IsArray(call.a) /\ IsArray(call.b)
         /\ Len(heap[call.a.n].elems) = Len(heap[call.b.n].elems)
         /\ \A i \in 1..Len(heap[call.a.n].elems) :
               ~equal(Mem, heap[call.a.n].elems[i], heap[call.b.n].elems[i]).threw
         /\ \E i \in 1..Len(heap[call.a.n].elems) :
               ~EqualHolds(heap[call.a.n].elems[i], heap[call.b.n].elems[i]) )
       => ReturnedFalse

\* C8 witness: two objects with the same properties inserted in different
\* orders were compared and found equal.
C8_Witness ==
    /\ Called
    /\ DistinctObjects(call.a, call.b)
    /\ ObjectCategory(call.a) /\ ObjectCategory(call.b)
    /\ NameSet(call.a) = NameSet(call.b)
    /\ heap[call.a.n].pkeys # heap[call.b.n].pkeys
    /\ ReturnedTrue

(***************************************************************************)
(* C9                                                                      *)
(***************************************************************************)
\* Two collections of the same category hold the same elements or entries:
\* identical elements index by index for arrays, identical members for sets,
\* identical keys with identical values for maps.
SameContents(a, b) ==
    /\ ConsOf(a) = ConsOf(b)
    /\ Len(heap[a.n].elems) = Len(heap[b.n].elems)
    /\ CASE ConsOf(a) = "Array" ->
                \A i \in 1..Len(heap[a.n].elems) :
                    StrictEq(heap[a.n].elems[i], heap[b.n].elems[i])
         [] ConsOf(a) = "Set" -> KeysIdentical(a, b)
         [] ConsOf(a) = "Map" ->
                /\ KeysIdentical(a, b)
                /\ \A k \in ElemSet(a) : StrictEq(MapGet(heap, a, k), MapGet(heap, b, k))
         [] OTHER -> FALSE

\* One of the two carries an extra named own property, the other none.
OneHasExtraProps(a, b) == HasExtraProps(a) # HasExtraProps(b)

\* C9: an array, map or set with an extra named own property and a second
\* collection of the same category with the same contents but without the
\* property are equal when check_all_properties is false and unequal when it
\* is true.
C9_ExtraPropertyToggle ==
    ( /\ Called
      /\ DistinctObjects(call.a, call.b)
      /\ ConsOf(call.a) \in {"Array", "Map", "Set"}
      /\ SameContents(call.a, call.b)
      /\ OneHasExtraProps(call.a, call.b) )
    => /\ ~result.threw
       /\ result.v = ~check_all_properties

\* C9 witness: with check_all_properties true, a map with an extra property
\* and a map with the same entries and no property were compared and found
\* unequal.
C9_Witness ==
    /\ Called
    /\ DistinctObjects(call.a, call.b)
    /\ ConsOf(call.a) = "Map"
    /\ SameContents(call.a, call.b)
    /\ HasExtraProps(call.a) /\ ~HasExtraProps(call.b)
    /\ check_all_properties
    /\ ReturnedFalse

(***************************************************************************)
(* C10                                                                     *)
(***************************************************************************)
\* C10: a call of equal leaves every object of the heap and both
\* configuration flags as they were.
C10_CallChangesNothing ==
    [][pc = "idle" /\ pc' = "returned" =>
          /\ heap' = heap
          /\ allow_type_coercion' = allow_type_coercion
          /\ check_all_properties' = check_all_properties]_varsEqual

\* C10 witness: two maps with the same two keys in different insertion
\* orders were compared and found equal, so that unsorted_identical removed
\* every key from its copy of the second map's keys.
C10_Witness ==
    /\ Called
    /\ DistinctObjects(call.a, call.b)
    /\ IsMap(call.a) /\ IsMap(call.b)
    /\ Len(heap[call.a.n].elems) = 2
    /\ heap[call.a.n].elems # heap[call.b.n].elems
    /\ ReturnedTrue

(***************************************************************************)
(* The publish/subscribe dispatcher: src/pubsub/pubsub.js (the module,     *)
(* subscribers kept in Sets) and src/unnamed/part_000 (the script,         *)
(* subscribers kept in arrays).                                            *)
(*                                                                         *)
(* A topic is the sequence of its characters.  A handler is known by the   *)
(* value it returns.  The data of a message takes no part in the control   *)
(* flow of the dispatcher and is left out.                                 *)
(***************************************************************************)
\* The caller makes at most this many subscribe calls.
MaxSubscribes == 3

\* At most this many published messages wait in the timer queue.
MaxQueue == 2

\* The call stack of the host holds this many nested frames of send; one
\* more raises a RangeError.  It is larger than the number of levels of any
\* topic of the model.
StackDepth == 7

\* '', 'a', 'a.b', 'a.b.c', 'a.', '.a', 'a..b'
Topics ==
    { <<>>, <<"a">>, <<"a", ".", "b">>, <<"a", ".", "b", ".", "c">>,
      <<"a", ".">>, <<".", "a">>, <<"a", ".", ".", "b">> }

\* The topics the caller subscribes to and unsubscribes from:
\* '', 'a', 'a.b', 'a.'
SubscribedTopics == { <<>>, <<"a">>, <<"a", ".", "b">>, <<"a", ".">> }

\* Handlers of the caller: one returns nothing, one returns
\* 'stopPropagation', one returns true.
Handlers == {"quiet", "stopper", "truthy"}

handler_return(h) ==
    CASE h = "stopper" -> "stopPropagation"
      [] h = "truthy" -> "true"
      [] OTHER -> "undefined"

\* ToBoolean of a returned value or of stop (false, undefined are falsy).
Truthy(v) == v \in {"stopPropagation", "true"}

\* v || stop
OrStop(v, stop) == IF Truthy(v) THEN v ELSE stop

\* [^.]+$ on the characters after the first p: at least one, none a dot.
NoDotsToEnd(t, p) == p < Len(t) /\ \A i \in (p + 1)..Len(t) : t[i] # "."

\* /(^|\.)[^.]+$/ matches after the first p characters of t.
MatchesAt(t, p) ==
    \/ p = 0 /\ NoDotsToEnd(t, 0)
    \/ p < Len(t) /\ t[p + 1] = "." /\ NoDotsToEnd(t, p + 1)

\* topic.replace(/(^|\.)[^.]+$/, ''): the leftmost match, which runs to the
\* end of the string, is cut off; without a match the string stays as it is.
strip_last(t) ==
    LET ps == {p \in 0..Len(t) : MatchesAt(t, p)} IN
    IF ps = {} THEN t
    ELSE SubSeq(t, 1, CHOOSE p \in ps : \A q \in ps : p <= q)

\* subscribers[topic], an absent entry read as no handlers
\* (subscribers[currenttopic] || [], subscribers[topic]?.forEach?.).
SubscribersOf(subs, t) == IF t \in DOMAIN subs THEN subs[t] ELSE <<>>

\* The loop over the handlers of one level, from the i-th on: every handler
\* is called and stop = handler(...) || stop.
RECURSIVE call_handlers(_, _, _, _)
call_handlers(hs, level, i, acc) ==
    IF i > Len(hs) THEN acc
    ELSE LET ret == handler_return(hs[i]) IN
         call_handlers(hs, level, i + 1,
             [log |-> Append(acc.log,
                        [handler |-> hs[i], level |-> level, ret |-> ret]),
              stop |-> OrStop(ret, acc.stop)])

NoCalls == [log |-> <<>>, stop |-> "false"]

\* send of pubsub.js at currenttopic, with depth frames of send on the stack.
RECURSIVE send_module(_, _, _)
send_module(subs, currenttopic, depth) ==
    IF depth > StackDepth THEN [log |-> <<>>, overflow |-> TRUE]
    ELSE LET here == call_handlers(SubscribersOf(subs, currenttopic),
                                   currenttopic, 1, NoCalls) IN
         IF here.stop # "stopPropagation" /\ currenttopic # <<>>
         THEN LET up == send_module(subs, strip_last(currenttopic), depth + 1) IN
              [log |-> here.log \o up.log, overflow |-> up.overflow]
         ELSE [log |-> here.log, overflow |-> FALSE]

\* send of part_000 at topic, with depth frames of send on the stack.
RECURSIVE send_script(_, _, _)
send_script(subs, topic, depth) ==
    IF depth > StackDepth THEN [log |-> <<>>, overflow |-> TRUE]
    ELSE LET here == IF topic # <<>>
                     THEN call_handlers(SubscribersOf(subs, topic), topic, 1, NoCalls)
                     ELSE NoCalls IN
         IF topic # <<>> /\ here.stop # "stopPropagation"
         THEN LET up == send_script(subs, strip_last(topic), depth + 1) IN
              [log |-> here.log \o up.log, overflow |-> up.overflow]
         ELSE [log |-> here.log, overflow |-> FALSE]

\* The timer task () => send(topic, data) of publish.
send(v, subs, topic) ==
    IF v = "module" THEN send_module(subs, topic, 1) ELSE send_script(subs, topic, 1)

\* Is h one of the handlers hs?
Has(hs, h) == \E i \in 1..Len(hs) : hs[i] = h

\* (subscribers[topic] ||= new Set()).add(subscriber): a Set keeps one copy,
\* in insertion order.
subscribe_module(subs, t, h) ==
    IF Has(subs[t], h) THEN subs ELSE [subs EXCEPT ![t] = Append(@, h)]

\* (subscribers[topic] ||= []).push(handler)
subscribe_script(subs, t, h) == [subs EXCEPT ![t] = Append(@, h)]

\* subscribers[topic]?.indexOf?.(handler), 0-based, -1 when absent.
handler_index(hs, h) ==
    IF Has(hs, h) THEN (CHOOSE i \in 1..Len(hs) :
                            hs[i] = h /\ \A j \in 1..(i - 1) : hs[j] # h) - 1
    ELSE -1

\* subscribers[topic].splice(idx, 1)
splice_handler(hs, idx) == SubSeq(hs, 1, idx) \o SubSeq(hs, idx + 2, Len(hs))

\* unsubscribe of part_000; given is FALSE when the call has no handler
\* argument (handler is undefined).
unsubscribe_script(subs, t, given, h) ==
    LET idx == handler_index(subs[t], h) IN
    IF given
    THEN IF idx >= 0 THEN [subs EXCEPT ![t] = splice_handler(@, idx)] ELSE subs
    ELSE [subs EXCEPT ![t] = <<>>]

\* unsubscribe of pubsub.js.  It is an arrow function, which has no
\* arguments object of its own: in an ES module reading `arguments` raises
\* a ReferenceError; where a loader wraps the file in a function, arguments
\* is the wrapper's and its length is not 1.  The other branch calls
\* Set.prototype.remove, which does not exist, so ?.remove?.() does nothing.
\* Either way the table is left as it was.
unsubscribe_module(subs, t, given, h) == subs

\* The subscribers table holds a sequence of handlers per topic; an entry
\* that was deleted or never made is the empty sequence, which every
\* operation of the dispatcher treats like an absent one.
NoSubscribers == [t \in Topics |-> <<>>]

\* What the most recent call or timer task did.
Did(op, t, given, h, raised, before, r) ==
    [op |-> op, topic |-> t, given |-> given, handler |-> h, raised |-> raised,
     before |-> before, log |-> r.log, overflow |-> r.overflow]

NoRun == [log |-> <<>>, overflow |-> FALSE]

NothingYet == Did("none", <<>>, FALSE, "", FALSE, <<>>, NoRun)

\* The subscriptions to topic t held in the sequence hs.
PairsOf(t, hs) == {<<t, hs[i]>> : i \in 1..Len(hs)}

\* A page that only uses the dispatcher: equal is not loaded.
NoEqual ==
    /\ heap = <<>>
    /\ allow_type_coercion = TRUE
    /\ check_all_properties = FALSE
    /\ pc = "idle"
    /\ call = NoCall
    /\ result = NoResult

InitPubsub ==
    /\ NoEqual
    /\ variant \in {"module", "script"}
    /\ subscribers = NoSubscribers
    /\ queue = <<>>
    /\ last = NothingYet
    /\ unsubscribed = {}
    /\ nsubscribes = 0

\* subscribe(topic, handler)
Subscribe(t, h) ==
    /\ nsubscribes < MaxSubscribes
    /\ nsubscribes' = nsubscribes + 1
    /\ subscribers' = IF variant = "module" THEN subscribe_module(subscribers, t, h)
                      ELSE subscribe_script(subscribers, t, h)
    /\ unsubscribed' = unsubscribed \ {<<t, h>>}
    /\ last' = Did("subscribe", <<>>, FALSE, "", FALSE, <<>>, NoRun)
    /\ UNCHANGED <<variant, queue>>
    /\ UNCHANGED varsEqual

\* unsubscribe(topic, handler) of part_000
UnsubscribeScript(t, h) ==
    /\ variant = "script"
    /\ subscribers' = unsubscribe_script(subscribers, t, TRUE, h)
    /\ unsubscribed' = unsubscribed \cup (PairsOf(t, subscribers[t]) \cap {<<t, h>>})
    /\ last' = Did("unsubscribe", t, TRUE, h, FALSE, subscribers, NoRun)
    /\ UNCHANGED <<variant, queue, nsubscribes>>
    /\ UNCHANGED varsEqual

\* unsubscribe(topic) of part_000
UnsubscribeAllScript(t) ==
    /\ variant = "script"
    /\ subscribers' = unsubscribe_script(subscribers, t, FALSE, "")
    /\ unsubscribed' = unsubscribed \cup PairsOf(t, subscribers[t])
    /\ last' = Did("unsubscribe", t, FALSE, "", FALSE, subscribers, NoRun)
    /\ UNCHANGED <<variant, queue, nsubscribes>>
    /\ UNCHANGED varsEqual

\* unsubscribe(topic, subscriber) of pubsub.js: it raises (ES module) or
\* returns (wrapped by a loader), see unsubscribe_module.
UnsubscribeModule(t, h, raised) ==
    /\ variant = "module"
    /\ subscribers' = unsubscribe_module(subscribers, t, TRUE, h)
    /\ unsubscribed' = IF raised THEN unsubscribed
                       ELSE unsubscribed \cup (PairsOf(t, subscribers[t]) \cap {<<t, h>>})
    /\ last' = Did("unsubscribe", t, TRUE, h, raised, subscribers, NoRun)
    /\ UNCHANGED <<variant, queue, nsubscribes>>
    /\ UNCHANGED varsEqual

\* unsubscribe(topic) of pubsub.js
UnsubscribeAllModule(t, raised) ==
    /\ variant = "module"
    /\ subscribers' = unsubscribe_module(subscribers, t, FALSE, "")
    /\ unsubscribed' = IF raised THEN unsubscribed
                       ELSE unsubscribed \cup PairsOf(t, subscribers[t])
    /\ last' = Did("unsubscribe", t, FALSE, "", raised, subscribers, NoRun)
    /\ UNCHANGED <<variant, queue, nsubscribes>>
    /\ UNCHANGED varsEqual

\* publish(topic, data): setTimeout(() => send(topic, data), 0) and return.
Publish(t) ==
    /\ Len(queue) < MaxQueue
    /\ queue' = Append(queue, t)
    /\ last' = Did("publish", <<>>, FALSE, "", FALSE, <<>>, NoRun)
    /\ UNCHANGED <<variant, subscribers, unsubscribed, nsubscribes>>
    /\ UNCHANGED varsEqual

\* The host runs the oldest timer task: send(topic, data) runs to its end,
\* or until the stack is exhausted.
Deliver ==
    /\ queue # <<>>
    /\ last' = Did("deliver", Head(queue), FALSE, "", FALSE, <<>>,
                   send(variant, subscribers, Head(queue)))
    /\ queue' = Tail(queue)
    /\ UNCHANGED <<variant, subscribers, unsubscribed, nsubscribes>>
    /\ UNCHANGED varsEqual

\* A caller that subscribes and publishes, and the host that runs the timer
\* tasks.
NextPubsub ==
    \/ \E t \in SubscribedTopics, h \in Handlers : Subscribe(t, h)
    \/ \E t \in Topics : Publish(t)
    \/ Deliver

SpecPubsub == InitPubsub /\ [][NextPubsub]_vars

\* The topics of the caller that also unsubscribes: 'a', 'a.b'
UnsubscribeTopics == { <<"a">>, <<"a", ".", "b">> }

\* A caller that subscribes, unsubscribes and publishes, and the host that
\* runs the timer tasks.
NextUnsubscribe ==
    \/ \E t \in UnsubscribeTopics, h \in Handlers : Subscribe(t, h)
    \/ \E t \in UnsubscribeTopics, h \in Handlers : UnsubscribeScript(t, h)
    \/ \E t \in UnsubscribeTopics : UnsubscribeAllScript(t)
    \/ \E t \in UnsubscribeTopics, h \in Handlers, raised \in BOOLEAN :
          UnsubscribeModule(t, h, raised)
    \/ \E t \in UnsubscribeTopics, raised \in BOOLEAN : UnsubscribeAllModule(t, raised)
    \/ \E t \in UnsubscribeTopics : Publish(t)
    \/ Deliver

SpecUnsubscribe == InitPubsub /\ [][NextUnsubscribe]_vars

(***************************************************************************)
(* Vocabulary of the dispatcher properties                                 *)
(***************************************************************************)
\* The most recent step was a delivery: a timer task ran send.
Delivered == last.op = "deliver"

\* The most recent step was a call of unsubscribe.
Unsubscribed == last.op = "unsubscribe"

\* anc is a shorter dotted prefix of topic t ('a' and 'a.b' of 'a.b.c'), or
\* the empty topic above a topic that is not empty.
IsAncestor(anc, t) ==
    /\ Len(anc) < Len(t)
    /\ anc = SubSeq(t, 1, Len(anc))
    /\ anc = <<>> \/ t[Len(anc) + 1] = "."

\* The handlers a delivery invoked at a level, in the order of the calls.
LevelCalls(log, level) ==
    LET at == SelectSeq(log, LAMBDA e : e.level = level) IN
    [i \in 1..Len(at) |-> at[i].handler]

\* hs without the handler h.
Without(hs, h) == SelectSeq(hs, LAMBDA x : x # h)

(***************************************************************************)
(* C11                                                                     *)
(***************************************************************************)
\* C11: when a handler invoked at some level of a delivery returned
\* 'stopPropagation', the delivery invoked no handler of an ancestor of that
\* level, whatever the other handlers of the level returned and in whatever
\* order they were subscribed, and it invoked every handler of that level.
C11_StopPropagationCancels ==
    Delivered =>
        \A i \in 1..Len(last.log) :
            last.log[i].ret = "stopPropagation" =>
                /\ \A j \in 1..Len(last.log) :
                       ~IsAncestor(last.log[j].level, last.log[i].level)
                /\ \A k \in 1..Len(subscribers[last.log[i].level]) :
                       Has(LevelCalls(last.log, last.log[i].level),
                           subscribers[last.log[i].level][k])

(***************************************************************************)
(* C12                                                                     *)
(***************************************************************************)
\* C12: a call of unsubscribe does not raise; after unsubscribe(topic,
\* handler) the handler is no longer subscribed to the topic while the other
\* handlers of the topic are, in their order; after unsubscribe(topic) no
\* handler is subscribed to the topic; when the handler or the topic was not
\* subscribed the table is unchanged; and no delivery invokes a handler at a
\* topic it was unsubscribed from and not subscribed to again.
C12_UnsubscribedNotInvoked ==
    /\ Unsubscribed =>
          /\ ~last.raised
          /\ last.given =>
                /\ ~Has(subscribers[last.topic], last.handler)
                /\ Without(subscribers[last.topic], last.handler)
                       = Without(last.before[last.topic], last.handler)
          /\ ~last.given => subscribers[last.topic] = <<>>
          /\ \A t \in Topics : t # last.topic => subscribers[t] = last.before[t]
          /\ (last.given /\ ~Has(last.before[last.topic], last.handler)) =>
                subscribers = last.before
          /\ (~last.given /\ last.before[last.topic] = <<>>) =>
                subscribers = last.before
    /\ Delivered =>
          \A i \in 1..Len(last.log) :
              <<last.log[i].level, last.log[i].handler>> \notin unsubscribed

(***************************************************************************)
(* C14                                                                     *)
(***************************************************************************)
\* C14: every delivery comes to its end, whatever the published topic: the
\* recursion of send stops by itself and never exhausts the call stack.
C14_EveryDeliveryTerminates == Delivered => ~last.overflow

(***************************************************************************)
(* C13                                                                     *)
(***************************************************************************)
\* A handler of a level longer than anc returned 'stopPropagation'.
CancelledBelow(log, anc) ==
    \E i \in 1..Len(log) :
        log[i].ret = "stopPropagation" /\ Len(log[i].level) > Len(anc)

\* The calls of a delivery: only at the published topic and its ancestors,
\* longer levels before shorter ones; the handlers of a level are called
\* once each, in one round; all handlers of the published topic are called,
\* and all handlers of each ancestor unless a level below it cancelled the
\* propagation.  The blank topic stands for no topic and is not required.
DeliveredInOrder ==
    /\ \A i \in 1..Len(last.log) :
          \/ last.log[i].level = last.topic
          \/ IsAncestor(last.log[i].level, last.topic)
    /\ \A i \in 1..Len(last.log) : \A j \in i..Len(last.log) :
          Len(last.log[i].level) >= Len(last.log[j].level)
    /\ \A i \in 1..Len(last.log) :
          LevelCalls(last.log, last.log[i].level) = subscribers[last.log[i].level]
    /\ last.topic # <<>> =>
          LevelCalls(last.log, last.topic) = subscribers[last.topic]
    /\ \A anc \in SubscribedTopics :
          (anc # <<>> /\ IsAncestor(anc, last.topic)) =>
              \/ CancelledBelow(last.log, anc)
              \/ LevelCalls(last.log, anc) = subscribers[anc]

\* A step that puts a message into the timer queue puts it last and calls
\* no handler; a step that takes a message out takes the oldest and is its
\* delivery.
QueueInPublishOrder ==
    /\ Len(queue') > Len(queue) =>
          /\ SubSeq(queue', 1, Len(queue)) = queue
          /\ last'.op = "publish" /\ last'.log = <<>>
    /\ Len(queue') < Len(queue) =>
          /\ queue' = Tail(queue)
          /\ last'.op = "deliver" /\ last'.topic = Head(queue)

\* C13: publish returns without invoking a handler; the message is delivered
\* by a later timer task, which invokes the handlers of the published topic
\* first and then those of each successively shorter dotted prefix, each
\* level once; messages are delivered one at a time, in the order they were
\* published.
C13_DeferredOrderedDelivery ==
    /\ [](last.op = "publish" => last.log = <<>>)
    /\ [](Delivered => DeliveredInOrder)
    /\ [][QueueInPublishOrder]_vars

====
